---- MODULE Spec2Model ----
(***************************************************************************)
(* Model of the measurement engine of src/App.tsx (the App component):     *)
(* the sample reduction of the throughput phases, the probe reduction of   *)
(* the PING phase, the throughput workers and the phase state machine.     *)
(***************************************************************************)
EXTENDS Integers, Sequences, FiniteSets, TLC

VARIABLES
    samples,      \* SpecReduce: the retained sample sequence (App.tsx:209, 264)
    reduced,      \* SpecReduce: the last value returned by the reduction, or NoValue
    prevReduced,  \* SpecReduce: the reduction of the sequence before the last push
    lastPush,     \* SpecReduce: how the last pushed sample compares to the older ones
    pings,        \* SpecProbe: the raw round-trip times (App.tsx:333)
    origPings,    \* SpecProbe: the list as first collected
    probeOut,     \* SpecProbe: <<avgPing, avgJitter>> of pings, or NoValue
    origOut,      \* SpecProbe: <<avgPing, avgJitter>> of origPings, or NoValue
    phase,        \* the React state cell `phase`: the last value given to setPhase
    closurePhase, \* `phase` as captured by the closures of the last committed render
    runs,         \* one record per call of startTest that passed the guard
    now,          \* performance.now(), in ms
    lastHistoryUpdateRef, \* lastHistoryUpdateRef.current
    history,      \* the results handed to saveToHistory, newest first
    lastCall,     \* what the last call of startTest did: "started" or "ignored"
    monitor,      \* the live probe effect: its interval timer and its requests
    byteRate,     \* bytes per ms of a steady transfer (0: the transfer is free)
    selectedServer, \* the server chosen in the header
    selects,      \* how often the choice was changed
    progress,     \* the progress state cell, in percent
    gaugeRef,     \* gaugeRef.current: the target of the gauge, in Mbps
    gaugeValue,   \* the gaugeValue state cell, in Mbps
    raf           \* the targets of the animation-frame callbacks not yet run

reduceVars == <<samples, reduced, prevReduced, lastPush>>
probeVars == <<pings, origPings, probeOut, origOut>>
runVars == <<phase, closurePhase, runs, now, lastHistoryUpdateRef, history, lastCall>>
serverVars == <<selectedServer, selects>>
uiVars == <<monitor, byteRate, serverVars>>
gaugeVars == <<progress, gaugeRef, gaugeValue, raf>>
vars == <<reduceVars, probeVars, runVars, uiVars, gaugeVars>>

NoValue == "none"

(***************************************************************************)
(* Numbers.  A rate in Mbps is a JavaScript number, the quotient of two    *)
(* integers; it is kept as the exact fraction <<numerator, denominator>>.  *)
(***************************************************************************)
RECURSIVE FracLess(_, _, _, _)
\* n1/d1 < n2/d2 for n >= 0, d > 0, by the continued-fraction expansion
\* (no product is formed, so nothing overflows).
FracLess(n1, d1, n2, d2) ==
    LET q1 == n1 \div d1
        q2 == n2 \div d2
        r1 == n1 % d1
        r2 == n2 % d2
    IN  IF q1 # q2 THEN q1 < q2
        ELSE IF r2 = 0 THEN FALSE
        ELSE IF r1 = 0 THEN TRUE
        ELSE FracLess(d2, r2, d1, r1)

RateLess(a, b) == FracLess(a[1], a[2], b[1], b[2])
RateEq(a, b) == ~RateLess(a, b) /\ ~RateLess(b, a)
RateLeq(a, b) == ~RateLess(b, a)

ZeroRate == <<0, 1>>

\* the rate in megabytes per second (a mutation)
MBps(totalBytes, elapsed) == <<totalBytes, elapsed * 1000>>

\* const mbps = (totalBytes * 8) / (elapsed * 1000)
Mbps(totalBytes, elapsed) == <<totalBytes * 8, elapsed * 1000>>

(***************************************************************************)
(* Array.prototype.sort((a, b) => a - b): a stable ascending sort.         *)
(***************************************************************************)
RECURSIVE InsertAsc(_, _)
InsertAsc(sorted, x) ==
    IF sorted = <<>> THEN <<x>>
    ELSE IF RateLess(x, Head(sorted)) THEN <<x>> \o sorted
    ELSE <<Head(sorted)>> \o InsertAsc(Tail(sorted), x)

RECURSIVE SortAscFrom(_, _)
SortAscFrom(done, rest) ==
    IF rest = <<>> THEN done
    ELSE SortAscFrom(InsertAsc(done, Head(rest)), Tail(rest))

\* a sort that leaves the array as it is (used as a mutation of SortRates)
SortRatesNone(s) == s

SortRates(s) == SortAscFrom(<<>>, s)

\* Math.floor(samples.length * 0.8).  0.8 is the double just above 4/5 and
\* length * 0.8 rounds to the nearest double, which for every length below
\* 2^50 is on the same side of each integer as length * 4 / 5.
PercentileIndex(len) == (len * 4) \div 5

\* the last index instead of the 80th-percentile one (a mutation)
FinalRateMax(s) ==
    IF Len(s) > 0 THEN SortRates(s)[Len(s)] ELSE ZeroRate

\* samples.length > 0 ? samples.sort((a, b) => a - b)[Math.floor(samples.length * 0.8)] : 0
\* (JavaScript indexes from 0, TLA+ sequences from 1)
FinalRate(s) ==
    IF Len(s) > 0 THEN SortRates(s)[PercentileIndex(Len(s)) + 1] ELSE ZeroRate

(***************************************************************************)
(* SpecReduce: the reduction applied to every sequence of retained samples *)
(* a phase can build by pushing one sample after another.                  *)
(***************************************************************************)
MaxSamples == 7

\* the rates a tick can compute: a byte count and an elapsed time
SampleBytes == {125, 250}
SampleElapsed == {2000, 4000}
SampleValues == {Mbps(b, e) : b \in SampleBytes, e \in SampleElapsed}

Range(s) == {s[i] : i \in 1..Len(s)}

PushKind(s, v) ==
    IF s = <<>> THEN "first"
    ELSE IF \A x \in Range(s) : RateLess(x, v) THEN "higher"
    ELSE IF \A x \in Range(s) : RateLess(v, x) THEN "lower"
    ELSE "other"

ReduceInit ==
    /\ samples = <<>>
    /\ reduced = FinalRate(<<>>)
    /\ prevReduced = NoValue
    /\ lastPush = "none"

\* samples.push(mbps), followed by the reduction of the sequence
PushSample(v) ==
    /\ Len(samples) < MaxSamples
    /\ samples' = Append(samples, v)
    /\ prevReduced' = reduced
    /\ reduced' = FinalRate(samples')
    /\ lastPush' = PushKind(samples, v)
    /\ UNCHANGED <<probeVars, runVars, uiVars, gaugeVars>>

ReduceNext == \E v \in SampleValues : PushSample(v)

(***************************************************************************)
(* The probe reduction.  performance.now() has sub-millisecond resolution: *)
(* a round-trip time is kept as a whole number of 1/SubMs milliseconds.    *)
(***************************************************************************)
SubMs == 2
PROBE_COUNT == 6
PROBE_PENALTY == 999

\* Math.round(n / d) for n >= 0, d > 0: the nearest integer, halves upwards
RoundDiv(n, d) == (2 * n + d) \div (2 * d)

RECURSIVE InsertNum(_, _)
InsertNum(sorted, x) ==
    IF sorted = <<>> THEN <<x>>
    ELSE IF x < Head(sorted) THEN <<x>> \o sorted
    ELSE <<Head(sorted)>> \o InsertNum(Tail(sorted), x)

RECURSIVE SortNumFrom(_, _)
SortNumFrom(done, rest) ==
    IF rest = <<>> THEN done
    ELSE SortNumFrom(InsertNum(done, Head(rest)), Tail(rest))

\* the array left in the order of collection (a mutation of SortPings)
SortPingsNone(p) == p

\* pings.sort((a,b) => a-b)
SortPings(p) == SortNumFrom(<<>>, p)

\* .slice(1, -1)
Slice1(s) == IF Len(s) <= 2 THEN <<>> ELSE SubSeq(s, 2, Len(s) - 1)

RECURSIVE SumSeq(_)
SumSeq(s) == IF s = <<>> THEN 0 ELSE Head(s) + SumSeq(Tail(s))

MaxOf(s) == CHOOSE x \in Range(s) : \A y \in Range(s) : y <= x
MinOf(s) == CHOOSE x \in Range(s) : \A y \in Range(s) : x <= y

SortedPings(p) == Slice1(SortPings(p))

\* Math.round(sortedPings.reduce((a, b) => a + b, 0) / sortedPings.length)
AvgPing(p) == RoundDiv(SumSeq(SortedPings(p)), Len(SortedPings(p)) * SubMs)

\* the spread truncated instead of rounded (a mutation of AvgJitter)
AvgJitterFloor(p) == (MaxOf(SortedPings(p)) - MinOf(SortedPings(p))) \div SubMs

\* Math.round(Math.max(...sortedPings) - Math.min(...sortedPings))
AvgJitter(p) == RoundDiv(MaxOf(SortedPings(p)) - MinOf(SortedPings(p)), SubMs)

ProbeReduction(p) == <<AvgPing(p), AvgJitter(p)>>

(***************************************************************************)
(* SpecProbe: the probe reduction applied to every list of PROBE_COUNT     *)
(* round-trip times and to its rearrangements.                             *)
(***************************************************************************)
\* round-trip times in 1/SubMs ms: 20 ms, 20 ms and one sub-unit, and the penalty
RttValues == {20 * SubMs, 20 * SubMs + 1, PROBE_PENALTY * SubMs}

ProbeInit ==
    /\ pings \in [1..PROBE_COUNT -> RttValues]
    /\ origPings = pings
    /\ probeOut = NoValue
    /\ origOut = NoValue

\* lines 342-346 applied to the list as collected
ReduceProbes ==
    /\ probeOut = NoValue
    /\ probeOut' = ProbeReduction(pings)
    /\ origOut' = ProbeReduction(origPings)
    /\ UNCHANGED <<pings, origPings, reduceVars, runVars, uiVars, gaugeVars>>

\* the same round-trip times collected in another order
SwapProbes(i) ==
    /\ probeOut = NoValue
    /\ pings[i] # pings[i + 1]
    /\ pings' = [pings EXCEPT ![i] = pings[i + 1], ![i + 1] = pings[i]]
    /\ UNCHANGED <<origPings, probeOut, origOut, reduceVars, runVars, uiVars, gaugeVars>>

ProbeNext ==
    \/ ReduceProbes
    \/ \E i \in 1..(PROBE_COUNT - 1) : SwapProbes(i)

(***************************************************************************)
(* The phase state machine (startTest) and the throughput testers          *)
(* (runDownloadTest, runUploadTest).  JavaScript runs one task at a time:  *)
(* an action is one task, the code between two awaits.                     *)
(***************************************************************************)
TEST_DURATION_MS == 8000
CONCURRENT_STREAMS == 4
UPLOAD_STREAMS == 4
RAMP_UP_THRESHOLD_MS == 1200
SAMPLE_CADENCE_MS == 50
HISTORY_CADENCE_MS == 200
PROBE_DELAY_MS == 150
TRANSITION_MS == 1200
UPLOAD_SIZE == 1048576
HISTORY_LIMIT == 15
LIVE_INTERVAL_MS == 3000

\* bounds of the environment
MaxCalls == 2        \* calls of startTest that pass the guard
MaxProbeFailures == 1 \* probes of one call that the network fails
ProbeRtt == 20       \* ms after which the network settles a probe it answers
TimeStep == 4000     \* ms by which the clock moves between two tasks of a phase
ChunkLen == 16384    \* bytes of one chunk of a response body
MaxChunks == 1       \* chunks delivered to one download phase
MaxSends == 2        \* uploads that complete in one upload phase
MaxLiveTicks == 2    \* ticks of one interval of the live monitor

TestPhase == {"IDLE", "PING", "DOWNLOAD", "TRANSITION", "UPLOAD", "COMPLETE"}
AtRest == {"IDLE", "COMPLETE"}

NoTimer == -1
WorkerPcs == {"fetch", "read", "cancel", "send", "raf", "done"}
NoWorkers == [p \in WorkerPcs |-> 0]
Spawn(pc0, n) == [NoWorkers EXCEPT ![pc0] = n]
Move(w, from, to) == [w EXCEPT ![from] = @ - 1, ![to] = @ + 1]

Min(a, b) == IF a <= b THEN a ELSE b
RunIds == DOMAIN runs

\* the calls of startTest that have not returned
ActiveRuns == {r \in RunIds : runs[r].pc \notin {"complete", "aborted"}}

\* const SERVERS (lines 25-46), the fields the program requests
SERVERS ==
    <<[id |-> "cloudflare-global",
       downloadUrl |-> "https://speed.cloudflare.com/__down?bytes=50000000",
       uploadUrl |-> "https://speed.cloudflare.com/__up",
       traceUrl |-> "https://speed.cloudflare.com/cdn-cgi/trace"],
      [id |-> "google-global",
       downloadUrl |-> "https://storage.googleapis.com/connectivity-test-assets/test-100mb.bin",
       uploadUrl |-> "https://httpbin.org/post",
       traceUrl |-> "https://www.google.com/generate_204"]>>

\* useState<Server>(SERVERS[0])
ServerInit == selectedServer = SERVERS[1] /\ selects = 0

\* a tester that asks the state of the page for its server at every request
\* (a mutation)
ServerSelectedNow(run) == selectedServer

\* the server of the requests of a call: serverToUse, the argument of
\* runDownloadTest and runUploadTest
ServerOf(run) == run.serverToUse

\* the requests of a call so far, by their endpoint (the cb parameter that is
\* appended to the transfer URLs is left out), with one more
Requested(run, url) == run.requests \cup {url}

\* the locals of a call of startTest at its first await (lines 331-337)
NewRun ==
    [pc |-> "probe_fetch", i |-> 0, s |-> now, due |-> now + ProbeRtt,
     serverToUse |-> selectedServer,
     requests |-> {selectedServer.traceUrl},
     pings |-> <<>>, avgPing |-> 0, avgJitter |-> 0,
     testStart |-> 0, totalBytes |-> 0, totalBytesUploaded |-> 0,
     samples |-> <<>>, aborted |-> FALSE, blob |-> 0, reported |-> <<>>,
     w |-> NoWorkers, finalDl |-> ZeroRate, finalUl |-> ZeroRate]

(***************************************************************************)
(* The display: progress in percent and the gauge in Mbps, both kept as    *)
(* exact fractions.  requestAnimationFrame callbacks run in the order of   *)
(* their registration, all those pending in one frame.                     *)
(***************************************************************************)
NoProgress == <<0, 1>>
FullProgress == <<100, 1>>

\* Math.min((elapsed / TEST_DURATION_MS) * 100, 100)
ProgressAt(elapsed) ==
    IF elapsed >= TEST_DURATION_MS THEN FullProgress
    ELSE <<elapsed * 100, TEST_DURATION_MS>>

\* the last element of a non-empty sequence
Last(q) == q[Len(q)]

\* the display of the page after the mount
GaugeInit ==
    /\ progress = NoProgress
    /\ gaugeRef = ZeroRate
    /\ gaugeValue = ZeroRate
    /\ raf = <<>>

\* gaugeRef.current = target; requestAnimationFrame(() => setGaugeValue(target))
updateGaugeSmoothly(target) ==
    /\ gaugeRef' = target
    /\ raf' = Append(raf, target)

\* an animation frame: the pending callbacks run in order
Frame ==
    /\ closurePhase = phase
    /\ raf # <<>>
    /\ gaugeValue' = Last(raf)
    /\ raf' = <<>>
    /\ UNCHANGED <<progress, gaugeRef>>
    /\ UNCHANGED <<reduceVars, probeVars, runVars, uiVars>>

\* the live monitor where a specification leaves it out
NoMonitor ==
    [due |-> NoTimer, ticks |-> 0, last |-> "none", inflight |-> 0,
     isConnected |-> TRUE]

RunInit ==
    /\ ServerInit
    /\ monitor = NoMonitor
    /\ byteRate = 0
    /\ GaugeInit
    /\ phase = "IDLE"
    /\ closurePhase = "IDLE"
    /\ runs = <<>>
    /\ now = 0
    /\ lastHistoryUpdateRef = 0
    /\ history = <<>>
    /\ lastCall = "none"

\* React commits the pending state before it runs the next task: the handlers
\* of the new render see the new phase.
Rendered == closurePhase = phase

Render ==
    /\ ~Rendered
    /\ closurePhase' = phase
    /\ UNCHANGED <<runs, now, lastHistoryUpdateRef, history, lastCall, phase>>
    /\ UNCHANGED <<reduceVars, probeVars, uiVars, gaugeVars>>

\* if (phase !== TestPhase.IDLE && phase !== TestPhase.COMPLETE) return;
GuardOpen == closurePhase \in AtRest

\* A call of startTest, the onClick handler of the render on screen, up to its
\* first await.  A caller holds the closure of the last committed render; a
\* second call in the same task runs before React has committed.
StartTest ==
    /\ IF GuardOpen
       THEN /\ Len(runs) < MaxCalls
            /\ phase' = "PING"
            /\ lastHistoryUpdateRef' = now
            /\ runs' = Append(runs, NewRun)
            /\ lastCall' = "started"
            /\ updateGaugeSmoothly(ZeroRate)
            /\ progress' = NoProgress
            /\ UNCHANGED gaugeValue
       ELSE /\ lastCall' = "ignored"
            /\ UNCHANGED <<phase, lastHistoryUpdateRef, runs, gaugeVars>>
    /\ UNCHANGED <<closurePhase, now, history>>
    /\ UNCHANGED <<reduceVars, probeVars, uiVars>>

\* the catch block of startTest (a mutation: the error is only logged)
CatchLogOnly(r) ==
    /\ runs' = [runs EXCEPT ![r].pc = "aborted", ![r].due = NoTimer]
    /\ UNCHANGED phase

\* catch (e) { console.error(...); setPhase(TestPhase.IDLE); }
Catch(r) ==
    /\ runs' = [runs EXCEPT ![r].pc = "aborted", ![r].due = NoTimer]
    /\ phase' = "IDLE"

\* the probes of a list that failed
Penalties(p) == Cardinality({k \in 1..Len(p) : p[k] = PROBE_PENALTY * SubMs})

\* a probe without its try/catch: the failure reaches the catch of startTest
\* (a mutation)
ProbeFailureEscapes(r, ok) ==
    /\ r \in RunIds
    /\ Rendered
    /\ runs[r].pc = "probe_fetch"
    /\ now >= runs[r].due
    /\ IF ok
       THEN /\ runs' = [runs EXCEPT
                  ![r].pings = Append(@, (now - runs[r].s) * SubMs),
                  ![r].pc = "probe_delay",
                  ![r].due = now + PROBE_DELAY_MS]
            /\ UNCHANGED phase
       ELSE Catch(r)
    /\ UNCHANGED <<closurePhase, now, lastHistoryUpdateRef, history, lastCall>>
    /\ UNCHANGED <<reduceVars, probeVars, uiVars, gaugeVars>>

\* The network settles the probe: pings.push(performance.now() - s) or
\* pings.push(999), then the delay timer is started.  fetch is given no signal
\* and no timeout: until the network settles it, the call stays at its await.
ProbeSettles(r, ok) ==
    /\ r \in RunIds
    /\ Rendered
    /\ runs[r].pc = "probe_fetch"
    /\ now >= runs[r].due
    /\ runs' = [runs EXCEPT
          ![r].pings = Append(@, IF ok THEN (now - runs[r].s) * SubMs
                                       ELSE PROBE_PENALTY * SubMs),
          ![r].pc = "probe_delay",
          ![r].due = now + PROBE_DELAY_MS]
    /\ UNCHANGED <<phase, closurePhase, now, lastHistoryUpdateRef, history, lastCall>>
    /\ UNCHANGED <<reduceVars, probeVars, uiVars, gaugeVars>>

\* the delay timer fires and the loop sends the next probe
NextProbe(r) ==
    /\ r \in RunIds
    /\ Rendered
    /\ runs[r].pc = "probe_delay"
    /\ now >= runs[r].due
    /\ runs[r].i + 1 < PROBE_COUNT
    /\ runs' = [runs EXCEPT ![r].i = @ + 1, ![r].s = now,
                            ![r].pc = "probe_fetch", ![r].due = now + ProbeRtt,
                            ![r].requests =
                                Requested(runs[r], ServerOf(runs[r]).traceUrl)]
    /\ UNCHANGED <<phase, closurePhase, now, lastHistoryUpdateRef, history, lastCall>>
    /\ UNCHANGED <<reduceVars, probeVars, uiVars, gaugeVars>>

\* lines 342-346 and runDownloadTest up to its Promise.all: the locals of the
\* tester and CONCURRENT_STREAMS workers, each at its fetch
DownloadEntered(run) ==
    [run EXCEPT !.i = PROBE_COUNT, !.pings = <<>>,
                !.avgPing = AvgPing(run.pings), !.avgJitter = AvgJitter(run.pings),
                !.pc = "download", !.testStart = now, !.totalBytes = 0,
                !.samples = <<>>, !.aborted = FALSE, !.reported = <<>>,
                !.due = now + TEST_DURATION_MS,
                !.w = Spawn("fetch", CONCURRENT_STREAMS),
                !.requests = Requested(run, ServerOf(run).downloadUrl)]

\* the delay timer of the last probe fires: the reduction, then runDownloadTest
EnterDownload(r) ==
    /\ r \in RunIds
    /\ Rendered
    /\ runs[r].pc = "probe_delay"
    /\ now >= runs[r].due
    /\ runs[r].i + 1 = PROBE_COUNT
    /\ runs' = [runs EXCEPT ![r] = DownloadEntered(runs[r])]
    /\ phase' = "DOWNLOAD"
    /\ UNCHANGED <<closurePhase, now, lastHistoryUpdateRef, history, lastCall>>
    /\ UNCHANGED <<reduceVars, probeVars, uiVars, gaugeVars>>

\* the same task when new AbortController() throws (line 210)
DownloadSetupThrows(r) ==
    /\ r \in RunIds
    /\ Rendered
    /\ runs[r].pc = "probe_delay"
    /\ now >= runs[r].due
    /\ runs[r].i + 1 = PROBE_COUNT
    /\ Catch(r)
    /\ UNCHANGED <<closurePhase, now, lastHistoryUpdateRef, history, lastCall>>
    /\ UNCHANGED <<reduceVars, probeVars, uiVars, gaugeVars>>

(***************************************************************************)
(* The sampling code of both testers (lines 227-243 and 288-304).          *)
(***************************************************************************)
Elapsed(run) == now - run.testStart

\* if (now - lastHistoryUpdateRef.current > 50)
CadenceOpen == now - lastHistoryUpdateRef > SAMPLE_CADENCE_MS

\* a warm-up test that lets the sample at the threshold through (a mutation)
PastWarmUpInclusive(run) == Elapsed(run) >= RAMP_UP_THRESHOLD_MS

\* if (elapsed > RAMP_UP_THRESHOLD_MS)
PastWarmUp(run) == Elapsed(run) > RAMP_UP_THRESHOLD_MS

Retains(run) == CadenceOpen /\ PastWarmUp(run)

\* samples.push(mbps), with mbps computed from the counter after the increment
SamplesAfterTick(run, total) ==
    IF Retains(run) THEN Append(run.samples, Mbps(total, Elapsed(run)))
    ELSE run.samples

\* if (now - lastHistoryUpdateRef.current > 200) lastHistoryUpdateRef.current = now
RefAfterTick(run) ==
    IF Retains(run) /\ now - lastHistoryUpdateRef > HISTORY_CADENCE_MS
    THEN now ELSE lastHistoryUpdateRef

\* an increment made from a value of the counter read before the await, when
\* the counter was still 0 (a mutation)
AddedToStale(total, delta) == delta

\* totalBytes += value.length and totalBytesUploaded += blob.size: read, add and
\* write in one synchronous step
Added(total, delta) == total + delta

\* setProgress(...) on the cadence; updateGaugeSmoothly(mbps) with a sample
DisplayAfterTick(run, total) ==
    /\ progress' = IF CadenceOpen THEN ProgressAt(Elapsed(run)) ELSE progress
    /\ IF Retains(run) THEN updateGaugeSmoothly(Mbps(total, Elapsed(run)))
       ELSE UNCHANGED <<gaugeRef, raf>>
    /\ UNCHANGED gaugeValue

(***************************************************************************)
(* runDownloadTest: the workers (stream) and the deadline.                 *)
(***************************************************************************)
\* fetch resolves and the worker takes the reader of the body
DlFetchOk(r) ==
    /\ r \in RunIds
    /\ Rendered
    /\ runs[r].pc = "download"
    /\ runs[r].w["fetch"] > 0
    /\ ~runs[r].aborted
    /\ runs' = [runs EXCEPT ![r].w = Move(@, "fetch", "read")]
    /\ UNCHANGED <<phase, closurePhase, now, lastHistoryUpdateRef, history, lastCall>>
    /\ UNCHANGED <<reduceVars, probeVars, uiVars, gaugeVars>>

\* a worker without its try/catch: the rejection reaches startTest (a mutation)
DlFetchRejects(r) ==
    /\ r \in RunIds
    /\ Rendered
    /\ runs[r].pc = "download"
    /\ runs[r].w["fetch"] > 0
    /\ Catch(r)
    /\ UNCHANGED <<closurePhase, now, lastHistoryUpdateRef, history, lastCall>>
    /\ UNCHANGED <<reduceVars, probeVars, uiVars, gaugeVars>>

\* fetch rejects (a network error, or the abort), or the response has no body:
\* catch, finally with no reader, and the worker returns
DlFetchFail(r) ==
    /\ r \in RunIds
    /\ Rendered
    /\ runs[r].pc = "download"
    /\ runs[r].w["fetch"] > 0
    /\ runs' = [runs EXCEPT ![r].w = Move(@, "fetch", "done")]
    /\ UNCHANGED <<phase, closurePhase, now, lastHistoryUpdateRef, history, lastCall>>
    /\ UNCHANGED <<reduceVars, probeVars, uiVars, gaugeVars>>

\* a read loop that counts the chunk without looking at the signal (a mutation)
DlChunkUnchecked(r, len) ==
    /\ r \in RunIds
    /\ Rendered
    /\ runs[r].pc = "download"
    /\ runs[r].w["read"] > 0
    /\ runs[r].totalBytes + len <= MaxChunks * ChunkLen
    /\ runs' = [runs EXCEPT
          ![r].totalBytes = Added(@, len),
          ![r].reported = Append(@, len),
          ![r].samples = SamplesAfterTick(runs[r], Added(runs[r].totalBytes, len))]
    /\ lastHistoryUpdateRef' = RefAfterTick(runs[r])
    /\ DisplayAfterTick(runs[r], Added(runs[r].totalBytes, len))
    /\ UNCHANGED <<phase, closurePhase, now, history, lastCall>>
    /\ UNCHANGED <<reduceVars, probeVars, uiVars>>

\* reader.read() resolves with a chunk of len bytes (lines 223-243)
DlChunk(r, len) ==
    /\ r \in RunIds
    /\ Rendered
    /\ runs[r].pc = "download"
    /\ runs[r].w["read"] > 0
    /\ ~runs[r].aborted
    /\ runs[r].totalBytes + len <= MaxChunks * ChunkLen
    /\ runs' = [runs EXCEPT
          ![r].totalBytes = Added(@, len),
          ![r].reported = Append(@, len),
          ![r].samples = SamplesAfterTick(runs[r], Added(runs[r].totalBytes, len))]
    /\ lastHistoryUpdateRef' = RefAfterTick(runs[r])
    /\ DisplayAfterTick(runs[r], Added(runs[r].totalBytes, len))
    /\ UNCHANGED <<phase, closurePhase, now, history, lastCall>>
    /\ UNCHANGED <<reduceVars, probeVars, uiVars>>

\* reader.read() resolves with done (the response is finished), resolves after
\* the abort (the loop test drops the chunk uncounted) or rejects (a transport
\* error, or the abort): the loop is left and finally awaits reader.cancel()
DlReadEnds(r) ==
    /\ r \in RunIds
    /\ Rendered
    /\ runs[r].pc = "download"
    /\ runs[r].w["read"] > 0
    /\ runs' = [runs EXCEPT ![r].w = Move(@, "read", "cancel")]
    /\ UNCHANGED <<phase, closurePhase, now, lastHistoryUpdateRef, history, lastCall>>
    /\ UNCHANGED <<reduceVars, probeVars, uiVars, gaugeVars>>

\* reader.cancel() settles and the worker returns
DlCancelled(r) ==
    /\ r \in RunIds
    /\ Rendered
    /\ runs[r].pc = "download"
    /\ runs[r].w["cancel"] > 0
    /\ runs' = [runs EXCEPT ![r].w = Move(@, "cancel", "done")]
    /\ UNCHANGED <<phase, closurePhase, now, lastHistoryUpdateRef, history, lastCall>>
    /\ UNCHANGED <<reduceVars, probeVars, uiVars, gaugeVars>>

\* setTimeout(() => controller.abort(), TEST_DURATION_MS) fires, in either tester
DeadlineFires(r) ==
    /\ r \in RunIds
    /\ Rendered
    /\ runs[r].pc \in {"download", "upload"}
    /\ runs[r].due # NoTimer
    /\ now >= runs[r].due
    /\ runs' = [runs EXCEPT ![r].aborted = TRUE, ![r].due = NoTimer]
    /\ UNCHANGED <<phase, closurePhase, now, lastHistoryUpdateRef, history, lastCall>>
    /\ UNCHANGED <<reduceVars, probeVars, uiVars, gaugeVars>>

\* a download phase that returns with its first worker and leaves the others
\* running (a mutation: Promise.race in the place of Promise.all)
DownloadReturnsEarly(r) ==
    /\ r \in RunIds
    /\ Rendered
    /\ runs[r].pc = "download"
    /\ runs[r].w["done"] >= 1
    /\ runs' = [runs EXCEPT ![r].finalDl = FinalRate(runs[r].samples),
                            ![r].samples = <<>>,
                            ![r].pc = "transition",
                            ![r].due = now + TRANSITION_MS]
    /\ phase' = "TRANSITION"
    /\ progress' = FullProgress
    /\ updateGaugeSmoothly(ZeroRate)
    /\ UNCHANGED <<closurePhase, now, lastHistoryUpdateRef, history, lastCall>>
    /\ UNCHANGED <<reduceVars, probeVars, uiVars, gaugeValue>>

\* Promise.all resolves: clearTimeout, the reduction, and startTest goes on to
\* the pause (lines 254-255 and 349-354)
DownloadReturns(r) ==
    /\ r \in RunIds
    /\ Rendered
    /\ runs[r].pc = "download"
    /\ runs[r].w["done"] = CONCURRENT_STREAMS
    /\ runs' = [runs EXCEPT ![r].finalDl = FinalRate(runs[r].samples),
                            ![r].samples = <<>>, ![r].w = NoWorkers,
                            ![r].pc = "transition",
                            ![r].due = now + TRANSITION_MS]
    /\ phase' = "TRANSITION"
    /\ progress' = FullProgress
    /\ updateGaugeSmoothly(ZeroRate)
    /\ UNCHANGED <<closurePhase, now, lastHistoryUpdateRef, history, lastCall>>
    /\ UNCHANGED <<reduceVars, probeVars, uiVars, gaugeValue>>

(***************************************************************************)
(* runUploadTest: the payload, the workers (uploadWorker) and the deadline.*)
(***************************************************************************)
\* while (performance.now() - testStart < TEST_DURATION_MS && !controller.signal.aborted)
LoopOpen(run) == Elapsed(run) < TEST_DURATION_MS /\ ~run.aborted

\* runUploadTest up to its Promise.all: every worker passes the loop test and
\* is at its fetch
UploadEntered(run) ==
    [run EXCEPT !.pc = "upload", !.testStart = now, !.totalBytesUploaded = 0,
                !.samples = <<>>, !.aborted = FALSE,
                !.blob = UPLOAD_SIZE, !.reported = <<>>,
                !.due = now + TEST_DURATION_MS,
                !.w = Spawn("send", UPLOAD_STREAMS),
                !.requests = Requested(run, ServerOf(run).uploadUrl)]

\* the pause is over: runUploadTest is entered
EnterUpload(r) ==
    /\ r \in RunIds
    /\ Rendered
    /\ runs[r].pc = "transition"
    /\ now >= runs[r].due
    /\ runs' = [runs EXCEPT ![r] = UploadEntered(runs[r])]
    /\ phase' = "UPLOAD"
    /\ updateGaugeSmoothly(ZeroRate)
    /\ progress' = NoProgress
    /\ UNCHANGED <<closurePhase, now, lastHistoryUpdateRef, history, lastCall>>
    /\ UNCHANGED <<reduceVars, probeVars, uiVars, gaugeValue>>

\* the same task when building the payload throws (lines 265-275)
UploadSetupThrows(r) ==
    /\ r \in RunIds
    /\ Rendered
    /\ runs[r].pc = "transition"
    /\ now >= runs[r].due
    /\ Catch(r)
    /\ updateGaugeSmoothly(ZeroRate)
    /\ progress' = NoProgress
    /\ UNCHANGED <<closurePhase, now, lastHistoryUpdateRef, history, lastCall>>
    /\ UNCHANGED <<reduceVars, probeVars, uiVars, gaugeValue>>

\* where a worker is after one turn of its loop
AfterTurn(run) == IF LoopOpen(run) THEN "send" ELSE "done"

\* the requests of the call after that turn: the next POST, if there is one
RequestsAfterTurn(run) ==
    IF LoopOpen(run) THEN Requested(run, ServerOf(run).uploadUrl)
    ELSE run.requests

\* the POST resolves: the payload is counted, a sample may be taken, and the
\* loop test decides between the next send and the return (lines 287-304, 278)
UlSendOk(r) ==
    /\ r \in RunIds
    /\ Rendered
    /\ runs[r].pc = "upload"
    /\ runs[r].w["send"] > 0
    /\ ~runs[r].aborted
    /\ runs[r].totalBytesUploaded + UPLOAD_SIZE <= MaxSends * UPLOAD_SIZE
    /\ runs' = [runs EXCEPT
          ![r].totalBytesUploaded = Added(@, runs[r].blob),
          ![r].reported = Append(@, runs[r].blob),
          ![r].samples = SamplesAfterTick(runs[r],
                            Added(runs[r].totalBytesUploaded, runs[r].blob)),
          ![r].w = Move(@, "send", AfterTurn(runs[r])),
          ![r].requests = RequestsAfterTurn(runs[r])]
    /\ lastHistoryUpdateRef' = RefAfterTick(runs[r])
    /\ DisplayAfterTick(runs[r], Added(runs[r].totalBytesUploaded, runs[r].blob))
    /\ UNCHANGED <<phase, closurePhase, now, history, lastCall>>
    /\ UNCHANGED <<reduceVars, probeVars, uiVars>>

\* the POST rejects with AbortError after controller.abort(): break
UlSendAborted(r) ==
    /\ r \in RunIds
    /\ Rendered
    /\ runs[r].pc = "upload"
    /\ runs[r].w["send"] > 0
    /\ runs[r].aborted
    /\ runs' = [runs EXCEPT ![r].w = Move(@, "send", "done")]
    /\ UNCHANGED <<phase, closurePhase, now, lastHistoryUpdateRef, history, lastCall>>
    /\ UNCHANGED <<reduceVars, probeVars, uiVars, gaugeVars>>

\* a worker that counts the payload before the POST has settled, so that a
\* failed send is counted too (a mutation)
UlSendFailsCounted(r) ==
    /\ r \in RunIds
    /\ Rendered
    /\ runs[r].pc = "upload"
    /\ runs[r].w["send"] > 0
    /\ ~runs[r].aborted
    /\ runs' = [runs EXCEPT ![r].totalBytesUploaded = Added(@, runs[r].blob),
                            ![r].w = Move(@, "send", "raf")]
    /\ UNCHANGED <<phase, closurePhase, now, lastHistoryUpdateRef, history, lastCall>>
    /\ UNCHANGED <<reduceVars, probeVars, uiVars, gaugeVars>>

\* the POST rejects with another error: the worker awaits an animation frame
UlSendFails(r) ==
    /\ r \in RunIds
    /\ Rendered
    /\ runs[r].pc = "upload"
    /\ runs[r].w["send"] > 0
    /\ ~runs[r].aborted
    /\ runs' = [runs EXCEPT ![r].w = Move(@, "send", "raf")]
    /\ UNCHANGED <<phase, closurePhase, now, lastHistoryUpdateRef, history, lastCall>>
    /\ UNCHANGED <<reduceVars, probeVars, uiVars, gaugeVars>>

\* the animation frame arrives and the loop test is made
UlFrame(r) ==
    /\ r \in RunIds
    /\ Rendered
    /\ runs[r].pc = "upload"
    /\ runs[r].w["raf"] > 0
    /\ runs' = [runs EXCEPT ![r].w = Move(@, "raf", AfterTurn(runs[r])),
                            ![r].requests = RequestsAfterTurn(runs[r])]
    /\ UNCHANGED <<phase, closurePhase, now, lastHistoryUpdateRef, history, lastCall>>
    /\ UNCHANGED <<reduceVars, probeVars, uiVars, gaugeVars>>

\* the TestResult of lines 364-371 (id and date left out; run names the call)
Result(r, run, ul) ==
    [run |-> r, download |-> run.finalDl, upload |-> ul,
     ping |-> run.avgPing, jitter |-> run.avgJitter]

\* setHistory(prev => [res, ...prev].slice(0, 15))
saveToHistory(res) ==
    history' = SubSeq(<<res>> \o history, 1, Min(Len(history) + 1, HISTORY_LIMIT))

\* Promise.all resolves: clearTimeout, the reduction, COMPLETE and the result
\* (lines 313-314 and 357-371)
UploadReturns(r) ==
    /\ r \in RunIds
    /\ Rendered
    /\ runs[r].pc = "upload"
    /\ runs[r].w["done"] = UPLOAD_STREAMS
    /\ runs' = [runs EXCEPT ![r].finalUl = FinalRate(runs[r].samples),
                            ![r].samples = <<>>, ![r].w = NoWorkers,
                            ![r].pc = "complete", ![r].due = NoTimer]
    /\ phase' = "COMPLETE"
    /\ saveToHistory(Result(r, runs[r], FinalRate(runs[r].samples)))
    /\ updateGaugeSmoothly(ZeroRate)
    /\ progress' = FullProgress
    /\ UNCHANGED <<closurePhase, now, lastHistoryUpdateRef, lastCall>>
    /\ UNCHANGED <<reduceVars, probeVars, uiVars, gaugeValue>>

(***************************************************************************)
(* The clock.  A timer fires when it is due: the clock does not pass a     *)
(* pending timer, and stands still when nothing waits for it.              *)
(***************************************************************************)
PendingDues == ({runs[r].due : r \in RunIds} \cup {monitor.due}) \ {NoTimer}
NextDue == CHOOSE d \in PendingDues : \A e \in PendingDues : d <= e

Advance ==
    /\ Rendered
    /\ PendingDues # {}
    /\ now < NextDue
    /\ now' = Min(now + TimeStep, NextDue)
    /\ UNCHANGED <<phase, closurePhase, runs, lastHistoryUpdateRef, history, lastCall>>
    /\ UNCHANGED <<reduceVars, probeVars, uiVars, gaugeVars>>

\* the names of the calls of startTest, in the order of their start
Calls == 1..MaxCalls

\* the network of Spec and SpecRun fails at most MaxProbeFailures probes of a call
MayFail(r) == r \in RunIds /\ Penalties(runs[r].pings) < MaxProbeFailures

ProbeStep(r) ==
    \/ \E ok \in BOOLEAN : (ok \/ MayFail(r)) /\ ProbeSettles(r, ok)
    \/ NextProbe(r)

TesterStep(r) ==
    \/ EnterDownload(r)
    \/ DownloadSetupThrows(r)
    \/ DeadlineFires(r)
    \/ DownloadReturns(r)
    \/ EnterUpload(r)
    \/ UploadSetupThrows(r)
    \/ UploadReturns(r)

WorkerStep(r) ==
    \/ DlFetchOk(r)
    \/ DlFetchFail(r)
    \/ DlChunk(r, ChunkLen)
    \/ DlReadEnds(r)
    \/ DlCancelled(r)
    \/ UlSendOk(r)
    \/ UlSendAborted(r)
    \/ UlSendFails(r)
    \/ UlFrame(r)

\* a click on START / AGAIN / Test Again: React has committed the updates of
\* the tasks before it dispatches the event
Click == Rendered /\ StartTest

\* a second call of the same closure within the task of the first
SecondCall == ~Rendered /\ StartTest

Next ==
    \/ Click
    \/ Render
    \/ Advance
    \/ \E r \in Calls : ProbeStep(r) \/ TesterStep(r) \/ WorkerStep(r)

\* The calls of SpecRun: the page is loaded and START is clicked once; the
\* handler is called again only while that run is active.
CallInRun == (runs = <<>> \/ ActiveRuns # {}) /\ Click

RunNext ==
    \/ CallInRun
    \/ Render
    \/ Advance
    \/ \E r \in Calls : ProbeStep(r) \/ TesterStep(r) \/ WorkerStep(r)

\* SpecPing: one call and its PING phase, on a network that answers or fails
\* each probe as it likes; the run is followed up to its entry into
\* runDownloadTest.
PingNext ==
    \/ CallInRun
    \/ Render
    \/ Advance
    \/ \E r \in Calls :
          \/ \E ok \in BOOLEAN : ProbeSettles(r, ok)
          \/ NextProbe(r)
          \/ EnterDownload(r)

(***************************************************************************)
(* The live probe effect (lines 177-203), with no overlay open.  React     *)
(* runs it after the mount and again after every commit that changes the   *)
(* phase: the old interval is cleared, tick() is called at once and a new  *)
(* interval is set.  tick reads the phase of the render of its effect.     *)
(***************************************************************************)
\* a tick that sends its request in every phase (a mutation)
TickUnguarded(ph, m) == [m EXCEPT !.last = "probe", !.inflight = @ + 1]

\* tick up to its await: if (phase !== IDLE && phase !== COMPLETE) return;
\* otherwise the request is sent ("probe") and stays in flight until the
\* network answers it
Tick(ph, m) ==
    IF ph \in AtRest THEN [m EXCEPT !.last = "probe", !.inflight = @ + 1]
    ELSE [m EXCEPT !.last = "skip"]

\* tick after its await (lines 190-198): the request of some earlier tick is
\* answered (ok) or fails, whatever the phase has become meanwhile, since the
\* request carries no signal and the cleanup of the effect only clears the
\* interval.  An answer sets livePing, liveJitter and isConnected = true, a
\* failure sets isConnected = false; the model keeps isConnected, the two
\* figures being written in the same step.
LiveSettles(ok) ==
    /\ Rendered \/ closurePhase \notin AtRest
    /\ monitor.inflight > 0
    /\ monitor' = [monitor EXCEPT !.inflight = @ - 1, !.isConnected = ok]
    /\ UNCHANGED <<runVars, reduceVars, probeVars, byteRate, serverVars, gaugeVars>>

\* the page after the mount: the effect has run in phase IDLE
MonitorInit ==
    /\ ServerInit
    /\ phase = "IDLE"
    /\ closurePhase = "IDLE"
    /\ runs = <<>>
    /\ now = 0
    /\ lastHistoryUpdateRef = 0
    /\ history = <<>>
    /\ lastCall = "none"
    /\ monitor = [Tick("IDLE", NoMonitor) EXCEPT !.due = LIVE_INTERVAL_MS]
    /\ byteRate = 0
    /\ GaugeInit

\* React commits a change of the phase and runs the effect again
Commit ==
    /\ ~Rendered
    /\ closurePhase' = phase
    /\ monitor' = [Tick(phase, monitor) EXCEPT
                      !.due = now + LIVE_INTERVAL_MS, !.ticks = 0]
    /\ UNCHANGED <<runs, now, lastHistoryUpdateRef, history, lastCall, phase>>
    /\ UNCHANGED <<reduceVars, probeVars, byteRate, serverVars, gaugeVars>>

\* window.setInterval(tick, 3000) fires.  A click is committed, effects
\* included, before the next task (React 18 and later), so that a tick of a
\* render at rest never meets a phase that render has not seen; an update
\* made after an await is committed in a later task, and a tick of the old
\* render may come first
MonitorTick ==
    /\ Rendered \/ closurePhase \notin AtRest
    /\ monitor.due # NoTimer
    /\ now >= monitor.due
    /\ monitor.ticks < MaxLiveTicks
    /\ monitor' = [Tick(closurePhase, monitor) EXCEPT
                      !.due = now + LIVE_INTERVAL_MS, !.ticks = @ + 1]
    /\ UNCHANGED <<runVars, reduceVars, probeVars, byteRate, serverVars, gaugeVars>>

\* The calls of SpecReentry: startTest is also called a second time within one
\* task.  Its network answers every probe, refuses every download and fails
\* every upload.
ReentryStep(r) ==
    \/ ProbeSettles(r, TRUE)
    \/ NextProbe(r)
    \/ EnterDownload(r)
    \/ DlFetchFail(r)
    \/ DownloadReturns(r)
    \/ EnterUpload(r)
    \/ UlSendFails(r)
    \/ UlFrame(r)
    \/ DeadlineFires(r)
    \/ UlSendAborted(r)
    \/ UploadReturns(r)

ReentryNext ==
    \/ Click
    \/ SecondCall
    \/ Render
    \/ Advance
    \/ \E r \in Calls : ReentryStep(r)

\* SpecMonitor: the monitor beside one run, on the network of SpecReentry
\* (probes are answered, transfers refused); the run may also be abandoned
MonitorNext ==
    \/ CallInRun
    \/ Commit
    \/ Advance
    \/ MonitorTick
    \/ \E ok \in BOOLEAN : LiveSettles(ok)
    \/ \E r \in Calls : ReentryStep(r) \/ DownloadSetupThrows(r)

(***************************************************************************)
(* The server select of the header (lines 579-585).  It is enabled in      *)
(* every phase.  Its change is committed with its effects before the next  *)
(* task: selectedServer is a dependency of the live probe effect, which    *)
(* runs again with the phase on screen.                                    *)
(***************************************************************************)
MaxSelects == 2      \* changes of the server in one behaviour

\* the values of the options
ServerIds == {SERVERS[k].id : k \in 1..Len(SERVERS)}

\* SERVERS.find(s => s.id === e.target.value) || SERVERS[0]
FindServer(id) ==
    IF \E k \in 1..Len(SERVERS) : SERVERS[k].id = id
    THEN SERVERS[CHOOSE k \in 1..Len(SERVERS) :
                    /\ SERVERS[k].id = id
                    /\ \A j \in 1..(k - 1) : SERVERS[j].id # id]
    ELSE SERVERS[1]

\* onChange of the select: another option was chosen
SelectServer(id) ==
    /\ Rendered
    /\ selects < MaxSelects
    /\ id # selectedServer.id
    /\ selectedServer' = FindServer(id)
    /\ selects' = selects + 1
    /\ monitor' = [Tick(closurePhase, monitor) EXCEPT
                      !.due = now + LIVE_INTERVAL_MS, !.ticks = 0]
    /\ UNCHANGED <<runVars, reduceVars, probeVars, byteRate, gaugeVars>>

\* SpecServer: the page of SpecMonitor with its server select, on a network
\* that leaves the requests of the monitor unanswered
ServerNext ==
    \/ CallInRun
    \/ Commit
    \/ Advance
    \/ MonitorTick
    \/ \E id \in ServerIds : SelectServer(id)
    \/ \E r \in Calls : ReentryStep(r)

(***************************************************************************)
(* One throughput phase on a fine clock (SpecPhase): a call that has made  *)
(* its probes enters runDownloadTest, or one whose downloads were all      *)
(* refused enters runUploadTest, and the clock visits the instants around  *)
(* the thresholds of the sampling code.                                    *)
(***************************************************************************)
PhaseStart == PROBE_COUNT * (ProbeRtt + PROBE_DELAY_MS)

ProbedRun ==
    [NewRun EXCEPT !.i = PROBE_COUNT - 1, !.pc = "probe_delay",
                   !.pings = [k \in 1..PROBE_COUNT |-> ProbeRtt * SubMs]]

\* ms since the start of the phase at which the environment delivers events
Instants ==
    {RAMP_UP_THRESHOLD_MS - 1, RAMP_UP_THRESHOLD_MS, RAMP_UP_THRESHOLD_MS + 1,
     RAMP_UP_THRESHOLD_MS + SAMPLE_CADENCE_MS + 2, TEST_DURATION_MS}

PhaseInit ==
    /\ ServerInit
    /\ \E ph \in {"DOWNLOAD", "UPLOAD"} :
          /\ phase = ph
          /\ closurePhase = ph
          /\ now = IF ph = "DOWNLOAD" THEN PhaseStart ELSE PhaseStart + TRANSITION_MS
          /\ runs = <<IF ph = "DOWNLOAD" THEN DownloadEntered(ProbedRun)
                      ELSE UploadEntered(DownloadEntered(ProbedRun))>>
    /\ lastHistoryUpdateRef = 0
    /\ history = <<>>
    /\ lastCall = "started"
    /\ monitor = NoMonitor
    /\ byteRate = 0
    /\ GaugeInit

PhaseTick ==
    /\ Rendered
    /\ runs[1].pc \in {"download", "upload"}
    /\ \E t \in Instants :
          /\ now < runs[1].testStart + t
          /\ PendingDues # {} => runs[1].testStart + t <= NextDue
          /\ now' = runs[1].testStart + t
    /\ UNCHANGED <<phase, closurePhase, runs, lastHistoryUpdateRef, history, lastCall>>
    /\ UNCHANGED <<reduceVars, probeVars, uiVars, gaugeVars>>

PhaseNext ==
    \/ PhaseTick
    \/ Render
    \/ \E r \in Calls :
          DeadlineFires(r) \/ DownloadReturns(r) \/ UploadReturns(r) \/ WorkerStep(r)

\* SpecGauge: one run and the animation frames of the page
GaugeNext == RunNext \/ Frame

\* SpecReentryGauge: the calls of SpecReentry and the animation frames of the
\* page, each run followed up to the pause after its download phase
ReentryGaugeStep(r) ==
    \/ ProbeSettles(r, TRUE)
    \/ NextProbe(r)
    \/ EnterDownload(r)
    \/ DlFetchOk(r)
    \/ DlFetchFail(r)
    \/ DlChunk(r, ChunkLen)
    \/ DlReadEnds(r)
    \/ DlCancelled(r)
    \/ DeadlineFires(r)
    \/ DownloadReturns(r)

ReentryGaugeNext ==
    \/ Click
    \/ SecondCall
    \/ Render
    \/ Advance
    \/ Frame
    \/ \E r \in Calls : ReentryGaugeStep(r)

(***************************************************************************)
(* SpecRate: a download whose byte counter grows steadily, by byteRate     *)
(* bytes in every ms since the start of the phase.                         *)
(***************************************************************************)
MaxByteRate == 2

\* ms since the start of the phase at which a chunk arrives
RateInstants ==
    {RAMP_UP_THRESHOLD_MS, RAMP_UP_THRESHOLD_MS + 1,
     RAMP_UP_THRESHOLD_MS + SAMPLE_CADENCE_MS + 2,
     RAMP_UP_THRESHOLD_MS + SAMPLE_CADENCE_MS + 3,
     1600, 3000, 5000, TEST_DURATION_MS}

RateInit ==
    /\ ServerInit
    /\ phase = "DOWNLOAD"
    /\ closurePhase = "DOWNLOAD"
    /\ now = PhaseStart
    /\ runs = <<DownloadEntered(ProbedRun)>>
    /\ lastHistoryUpdateRef = 0
    /\ history = <<>>
    /\ lastCall = "started"
    /\ monitor = NoMonitor
    /\ byteRate \in 1..MaxByteRate
    /\ GaugeInit

RateTick ==
    /\ Rendered
    /\ runs[1].pc = "download"
    /\ \E t \in RateInstants :
          /\ now < runs[1].testStart + t
          /\ PendingDues # {} => runs[1].testStart + t <= NextDue
          /\ now' = runs[1].testStart + t
    /\ UNCHANGED <<phase, closurePhase, runs, lastHistoryUpdateRef, history, lastCall>>
    /\ UNCHANGED <<reduceVars, probeVars, uiVars, gaugeVars>>

\* the chunk that brings the counter to byteRate bytes per elapsed ms
RateChunk(r) ==
    /\ r \in RunIds
    /\ byteRate * Elapsed(runs[r]) > runs[r].totalBytes
    /\ DlChunk(r, byteRate * Elapsed(runs[r]) - runs[r].totalBytes)

RateNext ==
    \/ RateTick
    \/ \E r \in Calls :
          \/ RateChunk(r)
          \/ DlFetchOk(r)
          \/ DlReadEnds(r)
          \/ DlCancelled(r)
          \/ DeadlineFires(r)
          \/ DownloadReturns(r)

\* SpecAgain: runs started one after the other, each by a click at rest, on
\* a network that answers every request until the deadline aborts it
AgainStep(r) ==
    \/ ProbeSettles(r, TRUE)
    \/ NextProbe(r)
    \/ EnterDownload(r)
    \/ DlFetchOk(r)
    \/ DlChunk(r, ChunkLen)
    \/ DlReadEnds(r)
    \/ DlCancelled(r)
    \/ DeadlineFires(r)
    \/ DownloadReturns(r)
    \/ EnterUpload(r)
    \/ UlSendOk(r)
    \/ UlSendAborted(r)
    \/ UploadReturns(r)

AgainNext ==
    \/ Click
    \/ Render
    \/ Advance
    \/ \E r \in Calls : AgainStep(r)

\* SpecCount: one throughput phase whose workers report chunks of several
\* sizes and completed sends, in every order
CountLens == {ChunkLen \div 4, ChunkLen \div 2}

CountChunk(r) == \E len \in CountLens : DlChunk(r, len)

CountNext ==
    \/ PhaseTick
    \/ Render
    \/ \E r \in Calls :
          \/ DeadlineFires(r)
          \/ DownloadReturns(r)
          \/ UploadReturns(r)
          \/ DlFetchOk(r)
          \/ DlFetchFail(r)
          \/ CountChunk(r)
          \/ DlReadEnds(r)
          \/ DlCancelled(r)
          \/ UlSendOk(r)
          \/ UlSendAborted(r)
          \/ UlSendFails(r)
          \/ UlFrame(r)

(***************************************************************************)
(* What the scheduling of the page guarantees (FairSpec): React commits,   *)
(* time passes, a timer that is due fires, a settled promise is continued, *)
(* an abort reaches the request it cancels, reader.cancel() settles and an *)
(* animation frame arrives.  Nothing makes the network settle a request.   *)
(***************************************************************************)
AbortReaches(r) ==
    /\ r \in RunIds
    /\ runs[r].aborted
    /\ DlFetchFail(r) \/ DlReadEnds(r) \/ UlSendAborted(r)

RunFairness(r) ==
    /\ WF_vars(NextProbe(r))
    /\ WF_vars(EnterDownload(r) \/ DownloadSetupThrows(r))
    /\ WF_vars(DeadlineFires(r))
    /\ WF_vars(AbortReaches(r))
    /\ WF_vars(DlCancelled(r))
    /\ WF_vars(DownloadReturns(r))
    /\ WF_vars(EnterUpload(r) \/ UploadSetupThrows(r))
    /\ WF_vars(UlFrame(r))
    /\ WF_vars(UploadReturns(r))

Fairness ==
    /\ WF_vars(Render)
    /\ WF_vars(Advance)
    /\ \A r \in Calls : RunFairness(r)

\* what the scheduling guarantees to a throughput phase after its deadline
PhaseFairness ==
    /\ WF_vars(Render)
    /\ \A r \in Calls :
          /\ WF_vars(AbortReaches(r))
          /\ WF_vars(DlCancelled(r))
          /\ WF_vars(UlFrame(r))
          /\ WF_vars(DownloadReturns(r))
          /\ WF_vars(UploadReturns(r))

\* the variables of a specification that does not use them
ReduceIdle ==
    /\ samples = <<>>
    /\ reduced = NoValue
    /\ prevReduced = NoValue
    /\ lastPush = "none"

ProbeIdle ==
    /\ pings = <<>>
    /\ origPings = <<>>
    /\ probeOut = NoValue
    /\ origOut = NoValue

Init == RunInit /\ ReduceIdle /\ ProbeIdle
InitPhase == PhaseInit /\ ReduceIdle /\ ProbeIdle
InitReduce == ReduceInit /\ ProbeIdle /\ RunInit
InitProbe == ProbeInit /\ ReduceIdle /\ RunInit
Spec == Init /\ [][Next]_vars
SpecRun == Init /\ [][RunNext]_vars
SpecPing == Init /\ [][PingNext]_vars
SpecGauge == Init /\ [][GaugeNext]_vars
SpecReentryGauge == Init /\ [][ReentryGaugeNext]_vars
InitRate == RateInit /\ ReduceIdle /\ ProbeIdle
SpecRate == InitRate /\ [][RateNext]_vars
InitMonitor == MonitorInit /\ ReduceIdle /\ ProbeIdle
SpecMonitor == InitMonitor /\ [][MonitorNext]_vars
SpecServer == InitMonitor /\ [][ServerNext]_vars
FairSpec == Init /\ [][RunNext]_vars /\ Fairness
SpecReentry == Init /\ [][ReentryNext]_vars
SpecPhase == InitPhase /\ [][PhaseNext]_vars
FairPhase == SpecPhase /\ PhaseFairness
SpecCount == InitPhase /\ [][CountNext]_vars
SpecAgain == Init /\ [][AgainNext]_vars
SpecReduce == InitReduce /\ [][ReduceNext]_vars
SpecProbe == InitProbe /\ [][ProbeNext]_vars

(***************************************************************************)
(* Claims on the calls of startTest and on the phase.                      *)
(***************************************************************************)
\* C1: startTest is a no-op whenever a run is active, also when the second
\* call arrives before the phase change of the first is visible to the guard:
\* at most one run, and so at most one set of workers, exists at any time.
C1_OneRunAtATime == Cardinality(ActiveRuns) <= 1

\* the moves of the phase along the linear order, the restart and the abort
PhaseMoves ==
    {<<"IDLE", "PING">>, <<"COMPLETE", "PING">>, <<"PING", "DOWNLOAD">>,
     <<"DOWNLOAD", "TRANSITION">>, <<"TRANSITION", "UPLOAD">>,
     <<"UPLOAD", "COMPLETE">>}
        \cup {<<p, "IDLE">> : p \in TestPhase \ AtRest}

\* C2: the phase only ever moves one step along IDLE -> PING -> DOWNLOAD ->
\* TRANSITION -> UPLOAD -> COMPLETE, back to PING on a restart, or to IDLE on
\* an abort: no phase is skipped, repeated or visited out of order.
C2_PhaseOrder == [][phase' # phase => <<phase, phase'>> \in PhaseMoves]_vars

\* C3: whatever the network does, a phase of PING, DOWNLOAD, TRANSITION or
\* UPLOAD is eventually followed by COMPLETE or IDLE: no run stays in a
\* phase forever.
C3_EveryRunEnds == (phase \notin AtRest) ~> (phase \in AtRest)

\* C4: when an exception escapes a step of a run, that step sets the phase to
\* IDLE, leaves no worker of the run active and hands no result to the history
\* recorder; afterwards the run stays abandoned (it never completes) and the
\* history never holds a result of it.
C4_ExceptionAbandonsRun ==
    [][\A r \in DOMAIN runs :
          /\ (runs[r].pc # "aborted" /\ runs'[r].pc = "aborted") =>
                /\ phase' = "IDLE"
                /\ \A p \in WorkerPcs \ {"done"} : runs'[r].w[p] = 0
                /\ history' = history
          /\ runs[r].pc = "aborted" =>
                /\ runs'[r] = runs[r]
                /\ \A k \in DOMAIN history' : history'[k].run # r]_vars

\* an exception has escaped a run and the phase is IDLE
C4_Witness == \E r \in RunIds : runs[r].pc = "aborted" /\ phase = "IDLE"

\* C5: a download phase that ends with zero bytes counted returns the rate 0
\* and the run goes on to TRANSITION; an upload phase that ends with zero
\* bytes counted returns 0 and the run reaches COMPLETE with a result whose
\* upload rate is 0.  Neither abandons the run.
C5_FailedPhaseYieldsZero ==
    [][\A r \in DOMAIN runs :
          /\ (runs[r].pc = "download" /\ runs[r].totalBytes = 0
                 /\ runs'[r].pc # "download") =>
                /\ runs'[r].pc = "transition"
                /\ phase' = "TRANSITION"
                /\ runs'[r].finalDl = ZeroRate
          /\ (runs[r].pc = "upload" /\ runs[r].totalBytesUploaded = 0
                 /\ runs'[r].pc # "upload") =>
                /\ runs'[r].pc = "complete"
                /\ phase' = "COMPLETE"
                /\ runs'[r].finalUl = ZeroRate
                /\ Len(history') > 0
                /\ history'[1].run = r
                /\ history'[1].upload = ZeroRate]_vars

\* a run has completed after a download phase and an upload phase without a
\* byte, and its result holds the rate 0 for both
C5_Witness ==
    \E r \in RunIds :
        /\ runs[r].pc = "complete"
        /\ phase = "COMPLETE"
        /\ runs[r].totalBytes = 0
        /\ runs[r].totalBytesUploaded = 0
        /\ \E k \in DOMAIN history :
              /\ history[k].run = r
              /\ history[k].download = ZeroRate
              /\ history[k].upload = ZeroRate

(***************************************************************************)
(* Claims on the sampling of one phase (SpecPhase).                        *)
(***************************************************************************)
\* the elapsed time (ms) at which a retained rate was computed
ElapsedOf(rate) == rate[2] \div 1000

\* C6: in both phases every retained sample was computed at an elapsed time
\* strictly greater than the warm-up window of 1200 ms, and so was a final
\* rate other than 0.
C6_NoWarmUpSample ==
    \A r \in RunIds :
        /\ \A k \in 1..Len(runs[r].samples) :
              ElapsedOf(runs[r].samples[k]) > RAMP_UP_THRESHOLD_MS
        /\ runs[r].finalDl # ZeroRate => ElapsedOf(runs[r].finalDl) > RAMP_UP_THRESHOLD_MS
        /\ runs[r].finalUl # ZeroRate => ElapsedOf(runs[r].finalUl) > RAMP_UP_THRESHOLD_MS

\* bytes were counted at the end of the warm-up window, with the cadence test
\* open, and no sample was retained
C6_Witness ==
    \E r \in RunIds :
        /\ runs[r].pc \in {"download", "upload"}
        /\ runs[r].totalBytes + runs[r].totalBytesUploaded > 0
        /\ Elapsed(runs[r]) = RAMP_UP_THRESHOLD_MS
        /\ CadenceOpen
        /\ runs[r].samples = <<>>

(***************************************************************************)
(* Claims on the reduction of the retained samples (SpecReduce).           *)
(***************************************************************************)
\* the number of retained samples strictly below r, and at most r
CountBelow(r) == Cardinality({i \in 1..Len(samples) : RateLess(samples[i], r)})
CountAtMost(r) == Cardinality({i \in 1..Len(samples) : RateLeq(samples[i], r)})

\* C7: the final rate is 0 when no sample was retained; otherwise it is one of
\* the retained samples, the one of rank k = floor(count * 0.8) in ascending
\* order (at most k samples are strictly below it and more than k are at most
\* it), and k is an index of the sequence (k <= count - 1).
C7_FinalRateIsPercentile ==
    /\ samples = <<>> => reduced = ZeroRate
    /\ samples # <<>> =>
          \E k \in 0..(Len(samples) - 1) :
              /\ 5 * k <= 4 * Len(samples)
              /\ 5 * (k + 1) > 4 * Len(samples)
              /\ reduced \in Range(samples)
              /\ CountBelow(reduced) <= k
              /\ CountAtMost(reduced) > k

\* the reduction has picked an element that is not the largest retained sample
C7_Witness ==
    /\ Len(samples) >= 6
    /\ \E x \in Range(samples) : RateLess(reduced, x)
    /\ \E x \in Range(samples) : RateLess(x, reduced)

\* C8: pushing a sample strictly higher than every retained one never
\* decreases the reduced result, and pushing one strictly lower than every
\* retained one never increases it, whatever the order of the stored samples.
C8_ReductionMonotonic ==
    /\ lastPush = "higher" => ~RateLess(reduced, prevReduced)
    /\ lastPush = "lower" => ~RateLess(prevReduced, reduced)

\* a strictly lower sample was pushed onto an unsorted sequence of five and the
\* result moved to the next-lower rank
C8_Witness ==
    /\ lastPush = "lower"
    /\ Len(samples) = 6
    /\ SubSeq(samples, 1, 5) # SortRates(SubSeq(samples, 1, 5))
    /\ RateLess(reduced, prevReduced)

(***************************************************************************)
(* Claims on the probe reduction (SpecProbe).                              *)
(***************************************************************************)
CountLess(p, v) == Cardinality({i \in 1..Len(p) : p[i] < v})
CountLeq(p, v) == Cardinality({i \in 1..Len(p) : p[i] <= v})
\* the second smallest and the second largest round-trip time of p
SecondLowest(p) ==
    CHOOSE v \in Range(p) : CountLess(p, v) <= 1 /\ CountLeq(p, v) >= 2
SecondHighest(p) ==
    CHOOSE v \in Range(p) : CountLeq(p, v) >= Len(p) - 1 /\ CountLess(p, v) <= Len(p) - 2
\* the sum of p without one lowest and one highest element
TrimmedSum(p) == SumSeq(p) - MinOf(p) - MaxOf(p)
TrimmedSpread(p) == SecondHighest(p) - SecondLowest(p)
\* x is n/d rounded to the nearest integer: x - 1/2 <= n/d < x + 1/2
IsRounded(x, n, d) == (2 * x - 1) * d <= 2 * n /\ 2 * n < (2 * x + 1) * d

\* C9 as stated: latency is the rounded mean of the list without its lowest and
\* its highest element and jitter is exactly max - min of that trimmed list.
C9_JitterIsSpread ==
    probeOut # NoValue =>
        /\ IsRounded(probeOut[1], TrimmedSum(pings), (Len(pings) - 2) * SubMs)
        /\ probeOut[2] * SubMs = TrimmedSpread(pings)
        /\ probeOut[2] >= 0

\* C9 as amended: the probe loop always collects PROBE_COUNT (6 >= 3) samples;
\* the lowest and the highest are removed, latency is the mean of the rest
\* rounded to the nearest millisecond, and jitter is max - min of the rest
\* ROUNDED to the nearest millisecond; jitter is never negative, and the
\* reduction of [20, 22, 21, 120] is latency 22, jitter 1.
C9_ProbeReductionRounded ==
    /\ probeOut # NoValue =>
          /\ Len(pings) = PROBE_COUNT
          /\ IsRounded(probeOut[1], TrimmedSum(pings), (Len(pings) - 2) * SubMs)
          /\ IsRounded(probeOut[2], TrimmedSpread(pings), SubMs)
          /\ probeOut[2] >= 0
    /\ ProbeReduction(<<20 * SubMs, 22 * SubMs, 21 * SubMs, 120 * SubMs>>) = <<22, 1>>

\* a reduced list whose trimmed spread is not a whole number of milliseconds
C9_Witness ==
    /\ probeOut # NoValue
    /\ TrimmedSpread(pings) % SubMs # 0
    /\ PROBE_PENALTY * SubMs \in Range(pings)

\* C10: the reduction of a list of round-trip times and the reduction of any
\* rearrangement of it give the same latency and the same jitter.
C10_OrderIndependent ==
    probeOut # NoValue => probeOut = origOut

\* a rearranged, unsorted list has been reduced
C10_Witness ==
    /\ probeOut # NoValue
    /\ pings # origPings
    /\ pings # SortPings(pings)
    /\ origPings # SortPings(origPings)

(***************************************************************************)
(* Claims on the probes of the PING phase (SpecPing).                      *)
(***************************************************************************)
\* C11: the probes of a call are issued one after another (a probe is sent
\* only when every earlier one has contributed its sample); each probe adds
\* exactly one sample, the measured round-trip time or the penalty 999, and
\* leads to the delay before the next probe, never to the end of the run; and
\* after PROBE_COUNT samples the run enters DOWNLOAD, with a latency of 999 ms
\* when every probe failed.
C11_ProbesOneByOne ==
    [][\A r \in DOMAIN runs :
          /\ runs[r].pc = "probe_fetch" => Len(runs[r].pings) = runs[r].i
          /\ runs[r].pc = "probe_delay" => Len(runs[r].pings) = runs[r].i + 1
          /\ (runs[r].pc = "probe_fetch" /\ runs'[r] # runs[r]) =>
                /\ runs'[r].pc = "probe_delay"
                /\ runs'[r].i = runs[r].i
                /\ Len(runs'[r].pings) = Len(runs[r].pings) + 1
                /\ SubSeq(runs'[r].pings, 1, Len(runs[r].pings)) = runs[r].pings
                /\ Last(runs'[r].pings) \in
                      {(now - runs[r].s) * SubMs, PROBE_PENALTY * SubMs}
                /\ phase' = phase
          /\ (runs[r].pc = "probe_delay" /\ runs'[r].pc \notin {"probe_delay", "probe_fetch"}) =>
                /\ Len(runs[r].pings) = PROBE_COUNT
                /\ runs'[r].pc = "download"
                /\ phase' = "DOWNLOAD"
                /\ Penalties(runs[r].pings) = PROBE_COUNT =>
                      runs'[r].avgPing = PROBE_PENALTY]_vars

\* every probe of a call has failed and the call is in its download phase,
\* with a latency of 999 ms
C11_Witness ==
    \E r \in RunIds :
        /\ runs[r].pc = "download"
        /\ phase = "DOWNLOAD"
        /\ runs[r].avgPing = PROBE_PENALTY
        /\ runs[r].avgJitter = 0

\* tick runs in this step (called by the effect or by the interval)
TickRuns ==
    <<monitor'.due, monitor'.ticks, monitor'.last>>
        # <<monitor.due, monitor.ticks, monitor.last>>

C12_Resumed ==
    /\ phase = "COMPLETE"
    /\ monitor.last = "probe"
    /\ monitor.ticks = 1
\* the rate of a steady transfer of byteRate bytes per ms, in Mbps
SteadyMbps == <<byteRate * 8, 1000>>

\* C13: while the byte counter grows by a constant r bytes per ms from the
\* start of the phase, every retained sample is r * 8 / 1000 Mbps, and so is
\* the reduced result of a phase that has retained a sample.
C13_SteadyRate ==
    [][\A r \in DOMAIN runs :
          /\ \A k \in 1..Len(runs'[r].samples) :
                RateEq(runs'[r].samples[k], SteadyMbps)
          /\ (runs[r].pc = "download" /\ runs'[r].pc = "transition"
                /\ runs[r].samples # <<>>) =>
                RateEq(runs'[r].finalDl, SteadyMbps)]_vars

\* a steady download has retained enough samples for the percentile to skip some
C13_Witness ==
    /\ byteRate = MaxByteRate
    /\ runs[1].pc = "download"
    /\ Len(runs[1].samples) >= 6

\* a steady download has returned its rate
C13_Returned ==
    /\ byteRate > 0
    /\ runs[1].pc = "transition"
    /\ RateEq(runs[1].finalDl, SteadyMbps)
\* C14: whenever the phase is TRANSITION the progress is 100 % and the target
\* of the gauge is 0, and between the entry into TRANSITION and the start of
\* UPLOAD nothing changes the progress, and nothing changes the gauge value
\* except to the 0 it was reset to.
C14_TransitionDisplay ==
    [][/\ phase' = "TRANSITION" =>
             progress' = FullProgress /\ gaugeRef' = ZeroRate
       /\ (phase = "TRANSITION" /\ phase' = "TRANSITION") =>
             /\ progress' = progress
             /\ gaugeValue' \in {gaugeValue, ZeroRate}]_vars

\* a frame of the pause has run the callback of the last download sample and
\* then the one of the reset
C14_Witness ==
    /\ phase = "TRANSITION"
    /\ raf = <<>>
    /\ gaugeValue = ZeroRate
    /\ \E r \in RunIds : runs[r].pc = "transition" /\ runs[r].finalDl # ZeroRate
\* the deadline of the throughput phase of a run has been reached
DeadlineReached(run) == Elapsed(run) >= TEST_DURATION_MS

\* a worker of a run exits in this step
WorkerExits(r) == runs'[r].w["done"] > runs[r].w["done"]

\* the throughput phase of a run returns in this step
PhaseReturns(r) ==
    \/ runs[r].pc = "download" /\ runs'[r].pc = "transition"
    \/ runs[r].pc = "upload" /\ runs'[r].pc = "complete"

\* C15: a throughput worker issues one request after another until the
\* deadline or the abort signal: no worker exits, and no download or upload
\* phase returns, before TEST_DURATION_MS have passed since the phase began.
C15_WorkersRunToDeadline ==
    [][\A r \in DOMAIN runs :
          (WorkerExits(r) \/ PhaseReturns(r)) => DeadlineReached(runs[r])]_vars

\* the same for the upload phase alone
C15_UploadWorkersRunToDeadline ==
    [][\A r \in DOMAIN runs :
          (runs[r].pc = "upload" /\ (WorkerExits(r) \/ PhaseReturns(r))) =>
              DeadlineReached(runs[r])]_vars
\* C16: within one throughput phase any two samples retained one after the
\* other are at least SAMPLE_CADENCE_MS (50 ms) apart.
C16_SamplesOnCadence ==
    \A r \in DOMAIN runs :
        \A k \in 1..(Len(runs[r].samples) - 1) :
            ElapsedOf(runs[r].samples[k + 1]) - ElapsedOf(runs[r].samples[k])
                >= SAMPLE_CADENCE_MS
\* the throughput phases
Throughput == {"download", "upload"}

\* the abort signal of the throughput phase of run r has been given
Signalled(r) == r \in DOMAIN runs /\ runs[r].pc \in Throughput /\ runs[r].aborted

\* the throughput phase of run r has returned and has left no worker behind
Returned(r) ==
    r \in DOMAIN runs /\ runs[r].pc \notin Throughput /\ runs[r].w = NoWorkers

\* C17: the deadline timer sets the one abort signal of the phase; once it is
\* set no byte is added to the counter of the phase and no sample is
\* retained, and every worker exits, so that the phase function returns.
C17_DeadlineStopsPhase ==
    /\ [][\A r \in DOMAIN runs :
             /\ (runs[r].pc \in Throughput /\ runs[r].due # NoTimer
                   /\ runs'[r].due = NoTimer /\ runs'[r].pc = runs[r].pc) =>
                   runs'[r].aborted
             /\ Signalled(r) =>
                   /\ runs'[r].totalBytes = runs[r].totalBytes
                   /\ runs'[r].totalBytesUploaded = runs[r].totalBytesUploaded
                   /\ runs'[r].pc = runs[r].pc => runs'[r].samples = runs[r].samples]_vars
    /\ \A r \in Calls :
          Signalled(r) ~> Returned(r)

\* an upload phase that counted a send has been stopped by its deadline and
\* has returned
C17_Witness ==
    \E r \in RunIds :
        /\ runs[r].aborted
        /\ runs[r].pc = "complete"
        /\ runs[r].totalBytesUploaded > 0
\* C18: in every interleaving of the workers the byte counter of a phase is
\* the sum of the deltas its workers have reported: no increment is lost and
\* none is applied twice.
C18_CounterIsSumOfDeltas ==
    \A r \in DOMAIN runs :
        /\ runs[r].pc \in {"download", "transition"} =>
              runs[r].totalBytes = SumSeq(runs[r].reported)
        /\ runs[r].pc \in {"upload", "complete"} =>
              runs[r].totalBytesUploaded = SumSeq(runs[r].reported)

\* chunks of different sizes have been reported while several workers read
C18_Witness ==
    \E r \in RunIds :
        /\ runs[r].pc = "download"
        /\ runs[r].w["read"] >= 2
        /\ Len(runs[r].reported) >= 3
        /\ \E j, k \in 1..Len(runs[r].reported) : runs[r].reported[j] # runs[r].reported[k]

\* two sends of an upload phase have completed while other workers were sending
C18_UploadCounted ==
    \E r \in RunIds :
        /\ runs[r].pc = "upload"
        /\ runs[r].w["send"] >= 2
        /\ Len(runs[r].reported) >= 2
\* the workers of a run that are inside stream or uploadWorker
DownloadWorkers(run) == run.w["fetch"] + run.w["read"] + run.w["cancel"]
UploadWorkers(run) == run.w["send"] + run.w["raf"]

\* C19: the byte counter and the samples of a throughput phase start empty
\* and are written only while that phase runs, by a worker of that phase of
\* that run; a phase that has ended has no worker left, so that no download
\* worker runs during TRANSITION or UPLOAD, and no step of one run changes
\* anything of another run.
C19_PhaseOwnsItsCounter ==
    [][\A r \in DOMAIN runs :
          /\ runs'[r].pc # "download" => DownloadWorkers(runs'[r]) = 0
          /\ runs'[r].pc # "upload" => UploadWorkers(runs'[r]) = 0
          /\ (runs[r].pc # "download" /\ runs'[r].pc = "download") =>
                /\ runs'[r].totalBytes = 0
                /\ runs'[r].samples = <<>>
          /\ (runs[r].pc # "upload" /\ runs'[r].pc = "upload") =>
                /\ runs'[r].totalBytesUploaded = 0
                /\ runs'[r].samples = <<>>
          /\ (runs[r].pc = runs'[r].pc /\ runs'[r].totalBytes # runs[r].totalBytes) =>
                runs[r].pc = "download" /\ runs[r].w["read"] > 0
          /\ (runs[r].pc = runs'[r].pc
                /\ runs'[r].totalBytesUploaded # runs[r].totalBytesUploaded) =>
                runs[r].pc = "upload" /\ runs[r].w["send"] > 0
          /\ (runs[r].pc = runs'[r].pc /\ runs'[r].samples # runs[r].samples) =>
                \/ runs[r].pc = "download" /\ runs[r].w["read"] > 0
                \/ runs[r].pc = "upload" /\ runs[r].w["send"] > 0
          /\ runs'[r] # runs[r] =>
                \A q \in DOMAIN runs \ {r} : runs'[q] = runs[q]]_vars

\* a later run counts the bytes of its upload phase while the counters of the
\* completed run before it stand as that run left them
C19_Witness ==
    \E r, q \in RunIds :
        /\ r < q
        /\ runs[r].pc = "complete"
        /\ runs[r].totalBytes > 0
        /\ runs[q].pc = "upload"
        /\ runs[q].totalBytesUploaded > 0
\* a send of run r fails, or is aborted, in this step
SendLost(r) ==
    /\ runs[r].pc = "upload"
    /\ runs'[r].w["send"] < runs[r].w["send"]
    /\ \/ runs'[r].w["raf"] > runs[r].w["raf"]
       \/ runs[r].aborted /\ runs'[r].w["done"] > runs[r].w["done"]

\* C20: the payload of an upload phase is built once, before the first send,
\* and every request sends that payload; the upload counter is the number of
\* completed sends times the payload size, and a send that fails or is
\* aborted adds nothing.
C20_UploadCountsCompletedSends ==
    [][\A r \in DOMAIN runs :
          /\ runs'[r].pc \in {"upload", "complete"} =>
                /\ runs'[r].blob = UPLOAD_SIZE
                /\ runs'[r].totalBytesUploaded = Len(runs'[r].reported) * UPLOAD_SIZE
          /\ runs[r].pc = "upload" => runs'[r].blob = runs[r].blob
          /\ SendLost(r) =>
                runs'[r].totalBytesUploaded = runs[r].totalBytesUploaded]_vars

\* two sends have completed and a third has failed
C20_Witness ==
    \E r \in RunIds :
        /\ runs[r].pc = "upload"
        /\ Len(runs[r].reported) >= 2
        /\ runs[r].w["raf"] >= 1
\* a worker of run r reports bytes in this step, on an open cadence
CadenceTick(r) ==
    /\ runs[r].pc \in Throughput
    /\ Len(runs'[r].reported) > Len(runs[r].reported)
    /\ CadenceOpen

\* the byte counter of the phase run r is in, after the step
CounterAfter(r) ==
    IF runs[r].pc = "download" THEN runs'[r].totalBytes
    ELSE runs'[r].totalBytesUploaded

\* C21: on every cadence tick of a throughput phase, the warm-up window
\* included, the rate is computed from the counter and the elapsed time and
\* is handed to the live gauge, and the progress percentage is set; the
\* warm-up only keeps the sample out of the retained ones.  (A tick in the
\* very millisecond the phase started has no rate and is left out.)
C21_WarmUpShownOnGauge ==
    [][\A r \in DOMAIN runs :
          (CadenceTick(r) /\ Elapsed(runs[r]) > 0) =>
              /\ progress' = ProgressAt(Elapsed(runs[r]))
              /\ gaugeRef' = Mbps(CounterAfter(r), Elapsed(runs[r]))
              /\ raf' = Append(raf, gaugeRef')
              /\ ~PastWarmUp(runs[r]) => runs'[r].samples = runs[r].samples]_vars

\* the part of C21 about the progress: every cadence tick sets it, in the
\* download and in the upload phase
C21_ProgressOnEveryTick ==
    [][\A r \in DOMAIN runs :
          CadenceTick(r) => progress' = ProgressAt(Elapsed(runs[r]))]_vars
\* the phases that measure a transfer
InTransfer == {"DOWNLOAD", "UPLOAD"}

\* the continuation of a tick writes the live figures in this step
LiveWritten == monitor'.inflight < monitor.inflight

\* C22: a probe of the live monitor sent while the phase was IDLE or COMPLETE
\* does not reach into a run: no probe of the monitor is in flight while the
\* phase is DOWNLOAD or UPLOAD, and the live figures (livePing, liveJitter,
\* isConnected) are written only while the phase is IDLE or COMPLETE.
C22_MonitorLeavesRunAlone ==
    [][/\ phase' \in InTransfer => monitor'.inflight = 0
       /\ LiveWritten => phase \in AtRest]_vars

\* the two halves of C22
C22_NoneInFlightInTransfer == phase \in InTransfer => monitor.inflight = 0
C22_WrittenAtRestOnly == [][LiveWritten => phase \in AtRest]_vars

\* a probe sent at rest is answered at rest
C22_AnsweredAtRest ==
    /\ phase = "COMPLETE"
    /\ monitor.inflight = 0
    /\ ~monitor.isConnected
\* the endpoints of a server
Endpoints(server) == {server.traceUrl, server.downloadUrl, server.uploadUrl}

\* C23: the endpoint of a run is fixed when the run starts: the server of a
\* call is the one selected when startTest was called and never changes, all
\* requests of the call (probes, downloads, uploads) go to that server
\* whatever is selected meanwhile, and a change of the selection leaves the
\* phase and the calls as they are.
C23_EndpointFixedAtStart ==
    [][/\ \A r \in DOMAIN runs' :
             /\ r \notin DOMAIN runs => runs'[r].serverToUse = selectedServer
             /\ r \in DOMAIN runs => runs'[r].serverToUse = runs[r].serverToUse
             /\ runs'[r].requests \subseteq Endpoints(runs'[r].serverToUse)
       /\ selectedServer' # selectedServer => UNCHANGED runVars]_vars

\* the first call uploads to the server of its start while another server is
\* selected: the selection was changed during that call
C23_Witness ==
    /\ Len(runs) = 1
    /\ phase = "UPLOAD"
    /\ runs[1].pc = "upload"
    /\ selectedServer # runs[1].serverToUse
    /\ runs[1].requests = Endpoints(runs[1].serverToUse)
====
